---- MODULE Spec2Model ----
(***************************************************************************)
(* Model of the sudoku solving engine of sudoku_ai (src/sudoku/puzzle.rs,  *)
(* src/sudoku/square.rs): the Puzzle grid, its validity check, the domain  *)
(* propagation and the loop of Puzzle::solve, one step per action.         *)
(*                                                                         *)
(* A Vec is a sequence; the code's 0-based index i is element i+1.         *)
(***************************************************************************)
EXTENDS Integers, Sequences, FiniteSets, TLC

VARIABLES dimension, squares, history, pc, input, text, reparsed

vars == <<dimension, squares, history, pc, input, text, reparsed>>

(***************************************************************************)
(* Bounds of the model.                                                    *)
(***************************************************************************)
\* number of cells in which an input grid may differ from a base grid
MaxEdits == 1
\* number of snapshots the model keeps of the history stack (the code's Vec
\* is unbounded; older snapshots than these are dropped from the model)
MaxHistory == 5
\* length of the longest text handed to the two readers
MaxTextLen == 4

(***************************************************************************)
(* Input grids: the token sequences handed to read_from_string.            *)
(***************************************************************************)
\* the solved 4x4 grid of the doc tests
SolvedGrid == <<1, 2, 3, 4,  3, 4, 1, 2,  2, 1, 4, 3,  4, 3, 2, 1>>
\* a grid with no givens at all
EmptyGrid == <<0, 0, 0, 0,  0, 0, 0, 0,  0, 0, 0, 0,  0, 0, 0, 0>>
\* a puzzle that naked singles alone finish (ten forced assignments)
SinglesGrid == <<1, 0, 3, 0,  0, 4, 0, 0,  0, 0, 4, 0,  0, 3, 0, 1>>
\* a puzzle on which naked singles run out (seven forced, then a guess)
GuessGrid == <<1, 0, 0, 0,  0, 0, 1, 0,  0, 1, 0, 3,  4, 0, 0, 0>>
\* the doc tests' almost solved grid, and their two grids with a duplicate
AlmostSolvedGrid == <<1, 2, 0, 0,  3, 4, 1, 2,  2, 1, 4, 3,  4, 3, 2, 1>>
DuplicateGrid == <<1, 2, 3, 3,  0, 4, 1, 2,  2, 1, 4, 3,  4, 3, 2, 1>>
InvalidRowGrid == <<1, 2, 4, 4,  0, 4, 1, 2,  2, 1, 4, 3,  4, 3, 2, 1>>
\* the solved grid with four cells blanked that form a rectangle 1 3 / 3 1:
\* every blank has the two candidates 1 and 3, so the first step is a guess
RectangleGrid == <<0, 2, 0, 4,  0, 4, 0, 2,  2, 1, 4, 3,  4, 3, 2, 1>>
\* the 1x1 grid
UnitGrid == <<1>>

BaseGrids == {SolvedGrid, EmptyGrid, SinglesGrid, GuessGrid, AlmostSolvedGrid,
              DuplicateGrid, InvalidRowGrid, RectangleGrid, UnitGrid}

\* `(x as f64).sqrt() as usize`
ISqrt(n) == CHOOSE r \in 0..n : r * r <= n /\ (r + 1) * (r + 1) > n

\* every grid that differs from base grid b in at most MaxEdits cells; a
\* changed cell holds any token 0..N+1 (N+1 is a value out of range)
EditsOf(b) ==
    LET n == ISqrt(Len(b))
        cells == 1..Len(b)
    IN  { [i \in cells |-> IF i \in S THEN f[i] ELSE b[i]] :
            <<S, f>> \in UNION { {S1} \X [S1 -> 0..(n + 1)] :
                     S1 \in {S2 \in SUBSET cells : Cardinality(S2) <= MaxEdits} } }

InputGrids == UNION { EditsOf(b) : b \in BaseGrids }

(***************************************************************************)
(* Square (src/sudoku/square.rs)                                           *)
(***************************************************************************)
\* Square::new: the value and an empty domain
NewSquare(value) == [value |-> value, domain |-> {}]

\* Square::reset: inserts 1..range into the domain (it removes nothing)
reset(square, range) == [square EXCEPT !.domain = @ \cup (1..range)]

\* Square::is_valid with the upper end of the range excluded
SquareIsValidExclusive(square, max) ==
    (square.value > 0 /\ square.value < max) \/ square.domain # {}

\* Square::is_valid
SquareIsValid(square, max) ==
    (square.value > 0 /\ square.value <= max) \/ square.domain # {}

\* Square::clear_domain that leaves the square's own value as a candidate
clear_domain_keep_value(square) == [square EXCEPT !.domain = {square.value}]

\* Square::clear_domain
clear_domain(square) == [square EXCEPT !.domain = {}]

\* Square::remove_from_domain
remove_from_domain(square, value) == [square EXCEPT !.domain = @ \ {value}]

\* Square::get_domain_size
get_domain_size(square) == Cardinality(square.domain)

\* Square::set_value_from_domain that draws a value from any non-empty domain
set_value_from_domain_any(square) ==
    IF square.domain # {}
    THEN [value |-> CHOOSE v \in square.domain : \A w \in square.domain : v <= w,
          domain |-> {}]
    ELSE square

\* Square::set_value_from_domain: only a domain of exactly one value is
\* drained into the value; any other domain leaves the square untouched
set_value_from_domain(square) ==
    IF Cardinality(square.domain) = 1
    THEN [value |-> CHOOSE v \in square.domain : TRUE, domain |-> {}]
    ELSE square

(***************************************************************************)
(* Puzzle addressing (src/sudoku/puzzle.rs)                                *)
(***************************************************************************)
\* the element at the code's 0-based index i
At(sq, i) == sq[i + 1]

\* `.filter(|square| square.value != 0).map(|square| square.value)` over
\* the squares at the 0-based indices listed in idx, in that order
IsNonZero(v) == v # 0
ValuesAt(sq, idx) ==
    SelectSeq([k \in 1..Len(idx) |-> At(sq, idx[k]).value], IsNonZero)

\* Puzzle::get_column that starts one row too low: skip(x + dimension)
get_column_below(sq, dim, x) ==
    LET len == Len(sq)
        first == x + dim
        count == IF first >= len THEN 0 ELSE ((len - 1 - first) \div dim) + 1
    IN  ValuesAt(sq, [k \in 1..count |-> first + (k - 1) * dim])

\* Puzzle::get_column: skip(x).step_by(dimension)
get_column(sq, dim, x) ==
    LET len == Len(sq)
        count == IF x >= len THEN 0 ELSE ((len - 1 - x) \div dim) + 1
    IN  ValuesAt(sq, [k \in 1..count |-> x + (k - 1) * dim])

\* Puzzle::get_row with the row's last square left out
get_row_short(sq, dim, y) ==
    LET row_start == y * dim
    IN  ValuesAt(sq, [k \in 1..(dim - 1) |-> row_start + (k - 1)])

\* Puzzle::get_row: squares[row_start..row_end]
get_row(sq, dim, y) ==
    LET row_start == y * dim
    IN  ValuesAt(sq, [k \in 1..dim |-> row_start + (k - 1)])

\* Puzzle::get_group whose runs are group_dimension apart instead of
\* group_dimension^2: it reads along the row instead of down the block
get_group_flat(sq, dim, x, y) ==
    LET group_dimension == ISqrt(dim)
        group_initial_x == (x \div group_dimension) * group_dimension
        group_initial_y == (y \div group_dimension) * group_dimension
        initial == group_initial_x + group_initial_y * dim
        all == [k \in 1..(group_dimension * group_dimension) |->
                  initial + ((k - 1) \div group_dimension) * group_dimension
                          + ((k - 1) % group_dimension)]
        InRange(i) == i < Len(sq)
    IN  ValuesAt(sq, SelectSeq(all, InRange))

\* Puzzle::get_group: group_dimension runs of group_dimension squares, the
\* run of `counter` starting at initial + counter * group_dimension^2
get_group(sq, dim, x, y) ==
    LET group_dimension == ISqrt(dim)
        group_initial_x == (x \div group_dimension) * group_dimension
        group_initial_y == (y \div group_dimension) * group_dimension
        initial == group_initial_x + group_initial_y * dim
        all == [k \in 1..(group_dimension * group_dimension) |->
                  initial + ((k - 1) \div group_dimension)
                              * (group_dimension * group_dimension)
                          + ((k - 1) % group_dimension)]
        InRange(i) == i < Len(sq)
    IN  ValuesAt(sq, SelectSeq(all, InRange))

\* `set.insert(value)` never collides: no value occurs twice in the list
NoCollision(values) ==
    \A i, j \in 1..Len(values) : i # j => values[i] # values[j]

\* Puzzle::is_valid
is_valid(sq, dim) ==
    /\ \A i \in 1..Len(sq) : SquareIsValid(sq[i], dim)
    /\ \A counter \in 0..(dim - 1) :
          LET group_dimension == ISqrt(dim)
              x == (counter % group_dimension) * group_dimension
              y == (counter \div group_dimension) * group_dimension
          IN  /\ NoCollision(get_column(sq, dim, counter))
              /\ NoCollision(get_row(sq, dim, counter))
              /\ NoCollision(get_group(sq, dim, x, y))

\* Puzzle::all_filled
all_filled(sq) == \A i \in 1..Len(sq) : sq[i].value # 0

\* Puzzle::is_solved
is_solved(sq, dim) == is_valid(sq, dim) /\ all_filled(sq)

\* Puzzle::reset_domains
reset_domains(sq, dim) == [i \in 1..Len(sq) |-> reset(sq[i], dim)]

\* the elements of a list, as `for value in to_be_removed` visits them
Elements(values) == {values[k] : k \in 1..Len(values)}

\* Puzzle::update_domains that forgets the values of the square's group
update_domains_no_group(sq, dim) ==
    [i \in 1..Len(sq) |->
        IF sq[i].value # 0
        THEN clear_domain(sq[i])
        ELSE LET counter == i - 1
                 x == counter % dim
                 y == counter \div dim
                 to_be_removed == Elements(get_column(sq, dim, x))
                                    \cup Elements(get_row(sq, dim, y))
             IN  [sq[i] EXCEPT !.domain = @ \ to_be_removed]]

\* Puzzle::update_domains: a fixed square's domain is cleared; from an
\* unfixed square's domain the values of its column, row and group are
\* removed.  No value changes during the pass, so the squares are independent.
update_domains(sq, dim) ==
    [i \in 1..Len(sq) |->
        IF sq[i].value # 0
        THEN clear_domain(sq[i])
        ELSE LET counter == i - 1
                 x == counter % dim
                 y == counter \div dim
                 to_be_removed == Elements(get_column(sq, dim, x))
                                    \cup Elements(get_row(sq, dim, y))
                                    \cup Elements(get_group(sq, dim, x, y))
             IN  [sq[i] EXCEPT !.domain = @ \ to_be_removed]]

\* Option<usize>
None == [some |-> FALSE]
Some(index) == [some |-> TRUE, index |-> index]
or_else(a, b) == IF a.some THEN a ELSE b

\* Puzzle::find_next_n_domain: position of the first square with n candidates
find_next_n_domain(sq, n) ==
    LET hits == {i \in 0..(Len(sq) - 1) : get_domain_size(At(sq, i)) = n}
    IN  IF hits = {} THEN None
        ELSE Some(CHOOSE i \in hits : \A j \in hits : i <= j)

\* Puzzle::find_next_empty_square that never finds a square
find_next_empty_square_none(sq) == None

\* Puzzle::find_next_empty_square: position of the first square with value 0
find_next_empty_square(sq) ==
    LET hits == {i \in 0..(Len(sq) - 1) : At(sq, i).value = 0}
    IN  IF hits = {} THEN None
        ELSE Some(CHOOSE i \in hits : \A j \in hits : i <= j)

\* struct Snapshot
Snapshot(sq, index) == [squares |-> sq, index |-> index]

\* Puzzle::read_from_string after tokenizing: one Square per token, the
\* dimension from the token count, then reset_domains
read_from_string(tokens) ==
    LET size == Len(tokens)
        dim == ISqrt(size)
    IN  [dimension |-> dim,
         squares |-> reset_domains([i \in 1..size |-> NewSquare(tokens[i])], dim)]

\* the cell values of a grid
ValuesOf(sq) == [i \in 1..Len(sq) |-> sq[i].value]

(***************************************************************************)
(* Text: a string is a sequence of one-character strings.                  *)
(***************************************************************************)
DigitChars == <<"0", "1", "2", "3", "4", "5", "6", "7", "8", "9">>
IsDigit(c) == \E d \in 1..Len(DigitChars) : DigitChars[d] = c
DigitValue(c) == (CHOOSE d \in 1..Len(DigitChars) : DigitChars[d] = c) - 1

\* char::is_whitespace, for the characters that occur here
Whitespace == {" ", "\n", "\t"}

\* `{}` of a usize: its decimal digits
RECURSIVE to_string(_)
to_string(n) ==
    IF n < Len(DigitChars) THEN <<DigitChars[n + 1]>>
    ELSE to_string(n \div Len(DigitChars)) \o <<DigitChars[(n % Len(DigitChars)) + 1]>>

\* the pieces written one after the other
RECURSIVE Concat(_)
Concat(pieces) ==
    IF pieces = <<>> THEN <<>> ELSE Head(pieces) \o Concat(Tail(pieces))

\* impl fmt::Display for Puzzle: for each chunk of `dimension` squares, each
\* value followed by a space, then a newline; after the last row one more
\* newline
fmt(sq, dim) ==
    LET rows == (Len(sq) + dim - 1) \div dim
        Width(r) == IF r * dim <= Len(sq) THEN dim ELSE Len(sq) - (r - 1) * dim
        Row(r) == Concat([k \in 1..Width(r) |->
                            to_string(sq[(r - 1) * dim + k].value) \o <<" ">>])
                    \o <<"\n">>
    IN  Concat([r \in 1..rows |-> Row(r)]) \o <<"\n">>

\* str::split on single separator characters: the pieces between the
\* separators, empty pieces included
RECURSIVE Split(_, _)
Split(source, separators) ==
    LET at == {i \in 1..Len(source) : source[i] \in separators}
    IN  IF at = {} THEN <<source>>
        ELSE LET i == CHOOSE a \in at : \A b \in at : a <= b
             IN  <<SubSeq(source, 1, i - 1)>>
                   \o Split(SubSeq(source, i + 1, Len(source)), separators)

\* `source.split(" ")`
split_space(source) == Split(source, {" "})

\* `contents.split_whitespace()`: the non-empty pieces between whitespace
IsNonEmpty(piece) == piece # <<>>
split_whitespace(source) == SelectSeq(Split(source, Whitespace), IsNonEmpty)

\* `x.parse::<usize>().ok()` is Some: a non-empty run of digits (a leading
\* "+" is not in the alphabet, and at these lengths nothing overflows)
Parses(token) == token # <<>> /\ \A k \in 1..Len(token) : IsDigit(token[k])

\* the number `x.parse::<usize>()` yields
RECURSIVE parse(_)
parse(token) ==
    IF Len(token) = 1 THEN DigitValue(token[1])
    ELSE parse(SubSeq(token, 1, Len(token) - 1)) * Len(DigitChars)
           + DigitValue(token[Len(token)])

\* `.filter_map(|x| x.parse::<usize>().ok())`
filter_map_parse(pieces) ==
    LET good == SelectSeq(pieces, Parses)
    IN  [k \in 1..Len(good) |-> parse(good[k])]

\* Puzzle::read_from_string on a text: split on " ", parse, build
read_from_str(source) == read_from_string(filter_map_parse(split_space(source)))

\* Puzzle::read_from_file on the file's contents: split_whitespace, parse, build
read_from_file(contents) ==
    read_from_string(filter_map_parse(split_whitespace(contents)))

\* no puzzle read yet
NoPuzzle == [dimension |-> 0, squares |-> <<>>]

(***************************************************************************)
(* The state machine: a puzzle built from an input grid, then one call of  *)
(* Puzzle::solve.  pc is the position of the caller / of the solve loop:   *)
(*   "fresh"      constructed, solve not yet called                        *)
(*   "propagate"  at the loop head, before update_domains                  *)
(*   "validate"   before `if !self.is_valid()`                             *)
(*   "decide"     before `match self.find_next_n_domain(1)`                *)
(*   "ok", "err"  solve has returned Ok(()) / Err(..)                      *)
(***************************************************************************)
Init ==
    \E tokens \in InputGrids :
        /\ input = tokens
        /\ dimension = read_from_string(tokens).dimension
        /\ squares = read_from_string(tokens).squares
        /\ history = <<>>
        /\ pc = "fresh"
        /\ text = <<>>
        /\ reparsed = NoPuzzle

\* solve, up to the loop: reset_domains and an empty history
SolveStart ==
    /\ pc = "fresh"
    /\ squares' = reset_domains(squares, dimension)
    /\ history' = <<>>
    /\ pc' = "propagate"
    /\ UNCHANGED <<dimension, input, text, reparsed>>

\* `self.update_domains();`
Propagate ==
    /\ pc = "propagate"
    /\ squares' = update_domains(squares, dimension)
    /\ pc' = "validate"
    /\ UNCHANGED <<dimension, history, input, text, reparsed>>

\* `if !self.is_valid() { match history.pop() {..} }`: an invalid grid with
\* an empty history returns Err; with a snapshot, the grid is restored, the
\* guessed value is removed from the domain of the snapshot's square, and
\* control falls through to the decision below
Validate ==
    /\ pc = "validate"
    /\ IF is_valid(squares, dimension)
       THEN /\ pc' = "decide"
            /\ UNCHANGED <<squares, history>>
       ELSE IF history # <<>>
            THEN LET top == history[Len(history)]
                     index == top.index
                     wrong_value == At(squares, index).value
                 IN  /\ squares' = [top.squares EXCEPT ![index + 1] =
                                       remove_from_domain(@, wrong_value)]
                     /\ history' = SubSeq(history, 1, Len(history) - 1)
                     /\ pc' = "decide"
            ELSE /\ pc' = "err"
                 /\ UNCHANGED <<squares, history>>
    /\ UNCHANGED <<dimension, input, text, reparsed>>

\* `history.push(..)`: the model keeps the MaxHistory most recent snapshots,
\* so the top of the stack is always the snapshot pushed last
Push(hist, snapshot) ==
    IF Len(hist) < MaxHistory
    THEN Append(hist, snapshot)
    ELSE Append(Tail(hist), snapshot)

\* a forced assignment that records a snapshot like a guess
ForcedWithSnapshot ==
    /\ pc = "decide"
    /\ LET single == find_next_n_domain(squares, 1)
       IN  /\ single.some
           /\ history' = Push(history, Snapshot(squares, single.index))
           /\ squares' = [squares EXCEPT ![single.index + 1] =
                             set_value_from_domain(@)]
    /\ pc' = "propagate"
    /\ UNCHANGED <<dimension, input, text, reparsed>>

\* `Some(index) => self.squares[index].set_value_from_domain()` of
\* `match self.find_next_n_domain(1)`: a forced assignment
Forced ==
    /\ pc = "decide"
    /\ LET single == find_next_n_domain(squares, 1)
       IN  /\ single.some
           /\ squares' = [squares EXCEPT ![single.index + 1] =
                             set_value_from_domain(@)]
    /\ pc' = "propagate"
    /\ UNCHANGED <<dimension, history, input, text, reparsed>>

\* the square the `None` arm branches on
BranchTarget(sq) == or_else(find_next_n_domain(sq, 2), find_next_empty_square(sq))

\* the `None` arm with a square to branch on: push a snapshot, then
\* set_value_from_domain on that square
Branch ==
    /\ pc = "decide"
    /\ ~find_next_n_domain(squares, 1).some
    /\ LET target == BranchTarget(squares)
       IN  /\ target.some
           /\ history' = Push(history, Snapshot(squares, target.index))
           /\ squares' = [squares EXCEPT ![target.index + 1] =
                             set_value_from_domain(@)]
    /\ pc' = "propagate"
    /\ UNCHANGED <<dimension, input, text, reparsed>>

\* the `None` arm with nothing to branch on: `break`, then `Ok(())`
Finish ==
    /\ pc = "decide"
    /\ ~find_next_n_domain(squares, 1).some
    /\ ~BranchTarget(squares).some
    /\ pc' = "ok"
    /\ UNCHANGED <<dimension, squares, history, input, text, reparsed>>

\* `println!("{}", puzzle)` of main, after solve has returned
Display ==
    /\ pc \in {"ok", "err"}
    /\ text = <<>>
    /\ text' = fmt(squares, dimension)
    /\ UNCHANGED <<dimension, squares, history, pc, input, reparsed>>

\* the printed text read again with read_from_string
Reparse ==
    /\ text # <<>>
    /\ reparsed = NoPuzzle
    /\ reparsed' = read_from_str(text)
    /\ UNCHANGED <<dimension, squares, history, pc, input, text>>

\* the steps of Puzzle::solve
SolveNext == SolveStart \/ Propagate \/ Validate \/ Forced \/ Branch \/ Finish

Next == SolveNext \/ Display \/ Reparse

Spec == Init /\ [][Next]_vars

(***************************************************************************)
(* The two readers on one text: read_from_string, then read_from_file on a *)
(* file with the same contents.                                            *)
(***************************************************************************)
\* the characters of the texts: digits and the three kinds of whitespace
TextChars == {"0", "1", "2"} \cup Whitespace

\* every text of at most MaxTextLen characters
Texts == UNION { [1..len -> TextChars] : len \in 0..MaxTextLen }

TextInit ==
    /\ text \in Texts
    /\ pc = "text"
    /\ dimension = NoPuzzle.dimension
    /\ squares = NoPuzzle.squares
    /\ history = <<>>
    /\ input = <<>>
    /\ reparsed = NoPuzzle

\* `Puzzle::read_from_string(&text)`
ReadString ==
    /\ pc = "text"
    /\ dimension' = read_from_str(text).dimension
    /\ squares' = read_from_str(text).squares
    /\ input' = filter_map_parse(split_space(text))
    /\ pc' = "string_read"
    /\ UNCHANGED <<history, text, reparsed>>

\* `Puzzle::read_from_file(&mut file)` on a file that holds the text
ReadFile ==
    /\ pc = "string_read"
    /\ reparsed' = read_from_file(text)
    /\ pc' = "file_read"
    /\ UNCHANGED <<dimension, squares, history, input, text>>

TextNext == ReadString \/ ReadFile

TextSpec == TextInit /\ [][TextNext]_vars

\* solve is one blocking call: a step that can be taken is taken
FairSpec == Spec /\ WF_vars(SolveNext)

(***************************************************************************)
(* Reference notions the properties are stated with.  They are written     *)
(* over cell positions, independently of the addressing code above.        *)
(***************************************************************************)
\* 0-based column, row and block of the cell at position i of 1..N*N
ColOf(i, n) == (i - 1) % n
RowOf(i, n) == (i - 1) \div n
BlockOf(i, n) == <<ColOf(i, n) \div ISqrt(n), RowOf(i, n) \div ISqrt(n)>>

SameRow(i, j, n) == RowOf(i, n) = RowOf(j, n)
SameCol(i, j, n) == ColOf(i, n) = ColOf(j, n)
SameBlock(i, j, n) == BlockOf(i, n) = BlockOf(j, n)
Peers(i, j, n) == i # j /\ (SameRow(i, j, n) \/ SameCol(i, j, n) \/ SameBlock(i, j, n))

\* two distinct cells of one row, column or block hold the same non-zero value
HasDuplicate(vals, n) ==
    \E i \in 1..Len(vals) :
        /\ vals[i] # 0
        /\ \E j \in 1..Len(vals) : vals[j] = vals[i] /\ Peers(i, j, n)

\* some filled cell holds a value outside 1..N
HasOutOfRange(vals, n) == \E i \in 1..Len(vals) : vals[i] # 0 /\ vals[i] > n

\* a solution: every cell in 1..N and no duplicate
IsSolution(vals, n) ==
    /\ \A i \in 1..Len(vals) : vals[i] \in 1..n
    /\ ~HasDuplicate(vals, n)

\* a partial grid without conflict can be completed: fill the first empty
\* cell with each value none of its peers holds, and go on
RECURSIVE CanFill(_, _)
CanFill(vals, n) ==
    LET empty == {i \in 1..Len(vals) : vals[i] = 0}
    IN  IF empty = {} THEN IsSolution(vals, n)
        ELSE LET i == CHOOSE e \in empty : \A f \in empty : e <= f
             IN  \E v \in 1..n :
                    /\ \A j \in 1..Len(vals) : Peers(i, j, n) => vals[j] # v
                    /\ CanFill([vals EXCEPT ![i] = v], n)

\* the input can be completed to a solution that keeps its given values
HasCompletion(vals, n) ==
    /\ ~HasDuplicate(vals, n)
    /\ ~HasOutOfRange(vals, n)
    /\ CanFill(vals, n)

InputFull == \A i \in 1..Len(input) : input[i] # 0
Values == ValuesOf(squares)

\* The snapshot arm of Validate is never taken: whenever the validator is
\* about to fail, the history is empty.
BacktrackUnreachable ==
    (pc = "validate" /\ ~is_valid(squares, dimension)) => history = <<>>

(***************************************************************************)
(* Properties                                                              *)
(***************************************************************************)
\* C1: whenever solve has returned Ok, the grid is a solution: every cell is
\* in 1..N, no row, column or block holds a value twice, is_solved() is true.
C1_OkIsSolved ==
    pc = "ok" => is_solved(squares, dimension) /\ IsSolution(Values, dimension)

\* solve returned Ok after it assigned at least one cell
C1_Witness == pc = "ok" /\ Values # input /\ dimension > 1

\* C2: every input without duplicate givens that has a completion is
\* eventually solved: solve returns Ok and is_solved() holds.
C2_SolvableIsSolved ==
    (pc = "fresh" /\ ~HasDuplicate(input, dimension) /\ HasCompletion(input, dimension))
        ~> (pc = "ok" /\ is_solved(squares, dimension))

\* C3: solve always terminates: it eventually returns Ok or Err.
C3_Terminates == <>(pc \in {"ok", "err"})

\* C4: for an input with a duplicate given, is_valid() is false before solve
\* (and ever after), and solve never decides, never guesses and never
\* returns Ok: its first validation returns Err.
C4_DuplicateIsInvalid ==
    HasDuplicate(input, dimension) =>
        /\ ~is_valid(squares, dimension)
        /\ pc \in {"fresh", "propagate", "validate", "err"}
        /\ history = <<>>

\* solve returned Err on an input with a duplicate given
C4_Witness == pc = "err" /\ HasDuplicate(input, dimension) /\ Values = input

\* C5: whenever solve has returned Err, the input has no completion to a
\* solution that keeps the given values.
C5_ErrIsUnsolvable == pc = "err" => ~HasCompletion(input, dimension)

\* solve returned Err after forced assignments, on an input whose givens
\* are in range and hold no duplicate
C5_Witness ==
    /\ pc = "err"
    /\ Values # input
    /\ ~HasDuplicate(input, dimension)
    /\ ~HasOutOfRange(input, dimension)

\* C6: for a fully assigned input on which is_valid() is true right after
\* construction, is_solved() is true and solve returns Ok with every value
\* unchanged (so it never returns Err).
C6_ValidFullGridSolved ==
    (InputFull /\ is_valid(read_from_string(input).squares, dimension)) =>
        /\ pc = "fresh" => is_solved(squares, dimension)
        /\ pc # "err"
        /\ Values = input

\* C7: is_valid() is false whenever two distinct cells of one row, column or
\* block hold the same non-zero value.
C7_DuplicateMakesInvalid ==
    HasDuplicate(Values, dimension) => ~is_valid(squares, dimension)

\* a grid whose only duplicate sits in a block: the two cells share neither
\* a row nor a column, and no row or column holds a duplicate
C7_Witness ==
    /\ HasDuplicate(Values, dimension)
    /\ \A i, j \in 1..Len(Values) :
          (i # j /\ Values[i] # 0 /\ Values[i] = Values[j])
              => ~SameRow(i, j, dimension) /\ ~SameCol(i, j, dimension)

\* C8: is_valid() is false whenever some filled cell holds a value outside
\* 1..N, in every state in which it can be called.
C8_OutOfRangeIsInvalid ==
    HasOutOfRange(Values, dimension) => ~is_valid(squares, dimension)

\* C10: update_domains is idempotent and never adds a value: a second run
\* changes nothing, and no domain after a run holds a value it lacked before.
C10_PropagationIdempotent ==
    LET once == update_domains(squares, dimension)
        twice == update_domains(once, dimension)
    IN  /\ twice = once
        /\ \A i \in 1..Len(squares) : once[i].domain \subseteq squares[i].domain

\* a propagation pass, after a forced assignment, is about to shrink the
\* domain of an unfixed cell
C10_Witness ==
    /\ pc = "propagate"
    /\ Values # input
    /\ \E i \in 1..Len(squares) :
          /\ squares[i].value = 0
          /\ update_domains(squares, dimension)[i].domain # squares[i].domain

\* the smallest member of a non-empty set of numbers
Smallest(S) == CHOOSE v \in S : \A w \in S : v <= w

\* the decision takes the branch arm: no square has exactly one candidate
\* and there is a square to branch on
AtBranch ==
    /\ pc = "decide"
    /\ ~find_next_n_domain(squares, 1).some
    /\ BranchTarget(squares).some

\* the number of cells that are 0 in the input grid
InputZeros == Cardinality({i \in 1..Len(input) : input[i] = 0})

\* C13: every branch step assigns the chosen cell a value: right after the
\* step the cell's value is non-zero and is the smallest member of the
\* domain the cell had before the step.
C13_BranchAssignsSmallest ==
    [][AtBranch =>
          LET cell == BranchTarget(squares).index + 1
          IN  /\ squares'[cell].value # 0
              /\ squares'[cell].value = Smallest(squares[cell].domain)]_vars

\* C14: the history stack never holds more snapshots than the input grid
\* has cells that are 0.
C14_HistoryBoundedByZeros == Len(history) <= InputZeros

\* C16: a forced assignment records no snapshot: a decision taken while
\* some square has exactly one candidate leaves the history as it is, and
\* the history changes only in a decision where no square has exactly one.
C16_ForcedRecordsNoSnapshot ==
    [][/\ (pc = "decide" /\ find_next_n_domain(squares, 1).some)
            => history' = history
       /\ history' # history
            => (pc = "decide" /\ ~find_next_n_domain(squares, 1).some)]_vars

\* forced assignments were made and the history holds just the one snapshot
\* of the guess that followed them
C16_Witness == Values # input /\ Len(history) = 1

\* the non-zero values held by the row, column and block peers of cell i
PeerValues(vals, i, n) ==
    {vals[j] : j \in {k \in 1..Len(vals) : Peers(i, k, n) /\ vals[k] # 0}}

C18_FixedCellsHaveNoCandidates ==
    /\ pc \in {"fresh", "validate", "ok", "err"} =>
          \A i \in 1..Len(squares) : squares[i].value # 0 => squares[i].domain = {}
    /\ pc = "fresh" => \A i \in 1..Len(squares) : squares[i].domain = {}

\* after propagation and after solve has returned, fixed cells have no
\* candidates (the part of C18 that does not concern the fresh grid)
FixedCellsClearedAfterPropagation ==
    pc \in {"validate", "decide", "ok", "err"} =>
        \A i \in 1..Len(squares) : squares[i].value # 0 => squares[i].domain = {}

\* C19: a branch step leaves the grid unchanged: it pushes a snapshot of the
\* grid and assigns nothing, so only the history grows; no snapshot is ever
\* popped, and solve returns only with an empty history.
C19_BranchChangesNothing ==
    /\ [][AtBranch =>
            /\ squares' = squares
            /\ history'[Len(history')] = Snapshot(squares, BranchTarget(squares).index)
            /\ Len(history) < MaxHistory => Len(history') = Len(history) + 1]_vars
    /\ [][Len(history') >= Len(history)]_vars
    /\ [](pc \in {"ok", "err"} => history = <<>>)

\* right after a branch step: the grid equals the snapshot on top of the history
C19_Witness ==
    /\ pc = "propagate"
    /\ history # <<>>
    /\ squares = history[Len(history)].squares

\* C20: solve never overwrites a given: every cell that is non-zero in the
\* input keeps its input value, and every value solve assigns goes to a cell
\* that was 0, lies in 1..N and is held by no row, column or block peer of
\* that cell at the moment of the assignment.
C20_GivensKept ==
    /\ [](\A i \in 1..Len(input) : input[i] # 0 => Values[i] = input[i])
    /\ [][\A i \in 1..Len(squares) :
            squares'[i].value # squares[i].value =>
                /\ squares[i].value = 0
                /\ squares'[i].value \in 1..dimension
                /\ squares'[i].value \notin PeerValues(Values, i, dimension)]_vars

\* solve has returned after assigning values to at least two cells
C20_Witness ==
    /\ pc \in {"ok", "err"}
    /\ Cardinality({i \in 1..Len(input) : Values[i] # input[i]}) >= 2

\* C11: round trip: a fully solved grid rendered with Display and read
\* again with read_from_string yields the same dimension and the identical
\* sequence of values.
C11_RoundTrip ==
    (is_solved(squares, dimension) /\ reparsed # NoPuzzle) =>
        /\ reparsed.dimension = dimension
        /\ ValuesOf(reparsed.squares) = Values

\* C12: read_from_string on a text and read_from_file on a file with that
\* content give the same dimension and the same sequence of values.
C12_ReadersAgree ==
    pc = "file_read" =>
        /\ reparsed.dimension = dimension
        /\ ValuesOf(reparsed.squares) = Values

====
